---- MODULE Spec2Model ----
(***************************************************************************)
(* A state-machine model of the CHIP-8 virtual machine of src/emu/emu.rs  *)
(* (struct Chip8) as driven by the event loop of src/main.rs.             *)
(*                                                                         *)
(* The variable vm is the Chip8 value main() owns: a record with one      *)
(* field per field of struct Chip8.  Every method is an operator from a   *)
(* VM record to a VM record, written in the order of the method's         *)
(* statements; an action assigns the method's result to vm.  Three fields *)
(* of the record are not fields of the struct:                            *)
(*   panicked  a Rust panic was raised (slice index out of bounds, or an  *)
(*             arithmetic overflow in a build with overflow checks).      *)
(*             main.rs catches no panic, so the process ends: no method   *)
(*             runs afterwards, and the record keeps the last state a     *)
(*             caller could observe (the state before the failing call).  *)
(*   beep      the last cycle() printed "BEEP" on standard output.        *)
(*   acc       the array slots the last cycle() indexed successfully.     *)
(***************************************************************************)
EXTENDS Integers, Sequences, FiniteSets, TLC

(***************************************************************************)
(* Sizes of the arrays of struct Chip8.                                    *)
(***************************************************************************)
MemSize == 4096
GfxSize == 2048
NumRegs == 16
StackSize == 16
NumKeys == 16
FontLen == 80
ProgStart == 512
ScreenWidth == 64
ScreenHeight == 32
U16Mod == 65536
U8Mod == 256

(***************************************************************************)
(* Bounds of the model: the keys the driver presses are 0..MaxLowKey and  *)
(* key 15; nested-call programs nest up to MaxNest deep; a stalled key    *)
(* wait is followed for up to MaxStall cycles.                            *)
(***************************************************************************)
MaxLowKey == 0
MaxNest == 2
MaxStall == 3
MaxApiWords == 7
MaxBetween == 3

FONTSET ==
  << 240, 144, 144, 144, 240,
      32,  96,  32,  32, 112,
     240,  16, 240, 128, 240,
     240,  16, 240,  16, 240,
     144, 144, 240,  16,  16,
     240, 128, 240,  16, 240,
     240, 128, 240, 144, 240,
     240,  16,  32,  64,  64,
     240, 144, 240, 144, 240,
     240, 144, 240,  16, 240,
     240, 144, 240, 144, 144,
     224, 144, 224, 144, 224,
     240, 128, 128, 128, 240,
     224, 144, 144, 144, 224,
     240, 128, 240, 128, 240,
     240, 128, 240, 128, 128 >>

(***************************************************************************)
(* Bit operations on naturals, as the operators &, | and ^ of the source. *)
(***************************************************************************)
RECURSIVE BitAnd(_, _)
BitAnd(a, b) ==
  IF a = 0 \/ b = 0 THEN 0
  ELSE (a % 2) * (b % 2) + 2 * BitAnd(a \div 2, b \div 2)

RECURSIVE BitOr(_, _)
BitOr(a, b) ==
  IF a = 0 THEN b
  ELSE IF b = 0 THEN a
  ELSE (IF a % 2 = 1 \/ b % 2 = 1 THEN 1 ELSE 0) + 2 * BitOr(a \div 2, b \div 2)

RECURSIVE BitXor(_, _)
BitXor(a, b) ==
  IF a = 0 THEN b
  ELSE IF b = 0 THEN a
  ELSE ((a + b) % 2) + 2 * BitXor(a \div 2, b \div 2)

RECURSIVE Pow2(_)
Pow2(n) == IF n = 0 THEN 1 ELSE 2 * Pow2(n - 1)

Shl(a, n) == a * Pow2(n)
Shr(a, n) == a \div Pow2(n)

(***************************************************************************)
(* Panics and checked indexing.  An index expression arr[i] of the source *)
(* panics when i is not below the array's length; an operator that finds  *)
(* the VM panicked leaves it alone, so a handler's later statements do    *)
(* not run.                                                                *)
(***************************************************************************)
Panic(s) == [s EXCEPT !.panicked = TRUE]

Live(s, t) == IF s.panicked THEN s ELSE t

NoAccess == [memory |-> {}, registers |-> {}, gfx |-> {}, stack |-> {}, keys |-> {}]

MemOk(a) == a \in 0..(MemSize - 1)
RegOk(i) == i \in 0..(NumRegs - 1)
GfxOk(g) == g \in 0..(GfxSize - 1)
StackOk(i) == i \in 0..(StackSize - 1)
KeyOk(k) == k \in 0..(NumKeys - 1)

\* The value of an array slot; the index was checked by the caller.
At(arr, i) == IF i \in DOMAIN arr THEN arr[i] ELSE 0

\* An index into self.memory that is evaluated for a read.
IndexMem(s, a) ==
  Live(s, IF MemOk(a) THEN [s EXCEPT !.acc.memory = @ \cup {a}] ELSE Panic(s))

\* Variant of WriteMem with the bounds check left out (an unchecked store).
WriteMem_unchecked(s, a, v) ==
  Live(s, [s EXCEPT !.memory[a] = v, !.acc.memory = @ \cup {a}])

\* self.memory[a] = v
WriteMem(s, a, v) ==
  Live(s, IF MemOk(a)
          THEN [s EXCEPT !.memory[a] = v, !.acc.memory = @ \cup {a}]
          ELSE Panic(s))

\* Indexes into self.registers that are evaluated for a read.
IndexRegs(s, S) ==
  Live(s, IF \A i \in S : RegOk(i)
          THEN [s EXCEPT !.acc.registers = @ \cup S]
          ELSE Panic(s))

\* self.registers[i] = v
WriteReg(s, i, v) ==
  Live(s, IF RegOk(i)
          THEN [s EXCEPT !.registers[i] = v, !.acc.registers = @ \cup {i}]
          ELSE Panic(s))

\* An index into self.keys.
IndexKey(s, k) ==
  Live(s, IF KeyOk(k) THEN [s EXCEPT !.acc.keys = @ \cup {k}] ELSE Panic(s))

\* An index into self.stack.
IndexStack(s, i) ==
  Live(s, IF StackOk(i) THEN [s EXCEPT !.acc.stack = @ \cup {i}] ELSE Panic(s))

(***************************************************************************)
(* u16 arithmetic.  A result outside 0..65535 panics in a build with      *)
(* overflow checks (the debug profile) and wraps in one without (the      *)
(* release profile); in.overflow_checks is the build's choice.            *)
(***************************************************************************)
Wrap16(v) == v % U16Mod

CheckU16(s, v, in) ==
  Live(s, IF v \notin 0..(U16Mod - 1) /\ in.overflow_checks THEN Panic(s) ELSE s)

\* self.pc += d
AdvancePc(s, d, in) ==
  LET s1 == CheckU16(s, s.pc + d, in)
  IN  Live(s1, [s1 EXCEPT !.pc = Wrap16(s.pc + d)])

(***************************************************************************)
(* Construction and the methods the driver calls besides cycle().         *)
(***************************************************************************)
fontset_into_mem(s) ==
  [s EXCEPT !.memory = [a \in 0..(MemSize - 1) |->
                          IF a < FontLen THEN FONTSET[a + 1] ELSE s.memory[a]]]

\* The redraw field main.rs reads and clears is not declared by struct
\* Chip8: a full-screen clear asks the presenter for a full resynchronisation.
request_redraw(s) == [s EXCEPT !.redraw = TRUE]

\* Nor is the draw_queue main.rs drains: a record (x, y, new value) is
\* appended for each screen cell a draw flips.
queue_pixel(s, x, y, to_draw) == [s EXCEPT !.draw_queue = Append(@, <<x, y, to_draw>>)]

clear_screen(s) ==
  Live(s, request_redraw([s EXCEPT !.gfx = [g \in 0..(GfxSize - 1) |-> 0]]))

Chip8_new ==
  fontset_into_mem(
    [opcode |-> 0,
     memory |-> [a \in 0..(MemSize - 1) |-> 0],
     registers |-> [i \in 0..(NumRegs - 1) |-> 0],
     index |-> 0,
     pc |-> ProgStart,
     gfx |-> [g \in 0..(GfxSize - 1) |-> 0],
     delay_timer |-> 0,
     sound_timer |-> 0,
     stack |-> [i \in 0..(StackSize - 1) |-> 0],
     sp |-> 0,
     keys |-> [k \in 0..(NumKeys - 1) |-> 0],
     redraw |-> FALSE,
     draw_queue |-> <<>>,
     painted |-> <<>>,
     panicked |-> FALSE,
     beep |-> FALSE,
     acc |-> NoAccess])

\* init(): every field of the struct but keys is assigned.
Chip8_init(s) ==
  LET s1 == [s EXCEPT !.pc = ProgStart, !.opcode = 0, !.index = 0, !.sp = 0]
      s2 == clear_screen(s1)
      s3 == [s2 EXCEPT !.stack = [i \in 0..(StackSize - 1) |-> 0],
                       !.registers = [i \in 0..(NumRegs - 1) |-> 0],
                       !.memory = [a \in 0..(MemSize - 1) |-> 0],
                       !.delay_timer = 0,
                       !.sound_timer = 0]
  IN  fontset_into_mem(s3)

\* Variant of load_rom that copies the image to the start of memory.
load_rom_at_zero(s, rom) ==
  [s EXCEPT !.memory = [a \in 0..(MemSize - 1) |->
                          IF a < MemSize - ProgStart THEN rom[a] ELSE s.memory[a]]]

\* rom is the array of MemSize - ProgStart bytes main.rs passes.
load_rom(s, rom) ==
  [s EXCEPT !.memory = [a \in 0..(MemSize - 1) |->
                          IF a < ProgStart THEN s.memory[a] ELSE rom[a - ProgStart]]]

\* src_mem is an array of MemSize bytes.
set_mem(s, src_mem) == [s EXCEPT !.memory = [a \in 0..(MemSize - 1) |-> src_mem[a]]]

\* main.rs reads the file into a zeroed buffer: the bytes, then zeros.
RomBuffer(bytes) ==
  [i \in 0..(MemSize - ProgStart - 1) |-> IF i < Len(bytes) THEN bytes[i + 1] ELSE 0]

key_pressed(s, key_index) ==
  IF KeyOk(key_index) THEN [s EXCEPT !.keys[key_index] = 1] ELSE Panic(s)

key_released(s, key_index) ==
  IF KeyOk(key_index) THEN [s EXCEPT !.keys[key_index] = 0] ELSE Panic(s)

(***************************************************************************)
(* Operand extraction.                                                     *)
(***************************************************************************)
get_nibble(s, i) ==
  LET shift == (i % 4) * 4
      mask == Shl(15, shift)
  IN  Shr(BitAnd(s.opcode, mask), shift)

get_byte(s, upper) ==
  IF upper THEN Shr(BitAnd(s.opcode, 65280), 8) ELSE BitAnd(s.opcode, 255)

OpX(s) == get_nibble(s, 2)
OpY(s) == get_nibble(s, 1)
OpN(s) == get_nibble(s, 0)
OpNN(s) == get_byte(s, FALSE)
OpNNN(s) == BitAnd(s.opcode, 4095)

VX(s) == At(s.registers, OpX(s))
VY(s) == At(s.registers, OpY(s))

(***************************************************************************)
(* reg_dump and reg_load: the loop over i in 0..end_index+1.              *)
(***************************************************************************)
RECURSIVE reg_dump_from(_, _, _, _, _)
reg_dump_from(s, i, end_index, offset, in) ==
  IF i > end_index \/ s.panicked THEN s
  ELSE LET s1 == IndexRegs(s, {i})
           s2 == WriteMem(s1, offset, At(s.registers, i))
           s3 == CheckU16(s2, offset + 1, in)
       IN  reg_dump_from(s3, i + 1, end_index, Wrap16(offset + 1), in)

\* Variant of reg_dump whose loop stops before end_index.
reg_dump_exclusive(s, end_index, in) == reg_dump_from(s, 0, end_index - 1, s.index, in)

reg_dump(s, end_index, in) == reg_dump_from(s, 0, end_index, s.index, in)

RECURSIVE reg_load_from(_, _, _, _, _)
reg_load_from(s, i, end_index, offset, in) ==
  IF i > end_index \/ s.panicked THEN s
  ELSE LET s1 == IndexMem(s, offset)
           s2 == WriteReg(s1, i, At(s.memory, offset))
           s3 == CheckU16(s2, offset + 1, in)
       IN  reg_load_from(s3, i + 1, end_index, Wrap16(offset + 1), in)

reg_load(s, end_index, in) == reg_load_from(s, 0, end_index, s.index, in)

(***************************************************************************)
(* perform_opcode: the fetch, then one operator per arm of the match.     *)
(***************************************************************************)
\* self.opcode = memory[pc] << 8 | memory[pc + 1]
fetch(s) ==
  LET s1 == IndexMem(s, s.pc)
      s2 == IndexMem(s1, s.pc + 1)
  IN  Live(s2, [s2 EXCEPT !.opcode =
                  BitOr(Shl(At(s.memory, s.pc), 8), At(s.memory, s.pc + 1))])

\* The arms "_ => println!(NOP)": nothing is assigned.
op_nop(s, in) == s

\* 0x0000 arm of group 0: clear the screen.
op_clear(s, in) == AdvancePc(clear_screen(s), 2, in)

\* Variant of op_ret that resumes at the call itself (pc += 2 left out).
op_ret_no_advance(s, in) ==
  LET s1 == CheckU16(s, s.sp - 1, in)
      sp1 == Wrap16(s.sp - 1)
      s2 == Live(s1, [s1 EXCEPT !.sp = sp1])
      s3 == IndexStack(s2, sp1)
  IN  Live(s3, [s3 EXCEPT !.pc = At(s.stack, sp1)])

\* 0x000E arm of group 0: return from a subroutine.
op_ret(s, in) ==
  LET s1 == CheckU16(s, s.sp - 1, in)
      sp1 == Wrap16(s.sp - 1)
      s2 == Live(s1, [s1 EXCEPT !.sp = sp1])
      s3 == IndexStack(s2, sp1)
      s4 == Live(s3, [s3 EXCEPT !.pc = At(s.stack, sp1)])
  IN  AdvancePc(s4, 2, in)

\* 0x1NNN
op_jump(s, in) == Live(s, [s EXCEPT !.pc = OpNNN(s)])

\* Variant of op_call that wraps the stack slot instead of checking it.
op_call_wrapping(s, in) ==
  LET s1 == Live(s, [s EXCEPT !.stack[s.sp % StackSize] = s.pc,
                              !.acc.stack = @ \cup {s.sp % StackSize}])
      s2 == CheckU16(s1, s.sp + 1, in)
      s3 == Live(s2, [s2 EXCEPT !.sp = Wrap16(s.sp + 1)])
  IN  Live(s3, [s3 EXCEPT !.pc = OpNNN(s)])

\* 0x2NNN
op_call(s, in) ==
  LET s1 == IndexStack(s, s.sp)
      s2 == Live(s1, [s1 EXCEPT !.stack[s.sp] = s.pc])
      s3 == CheckU16(s2, s.sp + 1, in)
      s4 == Live(s3, [s3 EXCEPT !.sp = Wrap16(s.sp + 1)])
  IN  Live(s4, [s4 EXCEPT !.pc = OpNNN(s)])

\* The tail of the skip arms: pc += 4 when cond, else pc += 2.
skip_if(s, cond, in) == AdvancePc(s, IF cond THEN 4 ELSE 2, in)

\* 0x3XNN
op_se_imm(s, in) == skip_if(IndexRegs(s, {OpX(s)}), VX(s) = OpNN(s), in)

\* 0x4XNN
op_sne_imm(s, in) == skip_if(IndexRegs(s, {OpX(s)}), VX(s) # OpNN(s), in)

\* 0x5XY0
op_se_reg(s, in) == skip_if(IndexRegs(s, {OpX(s), OpY(s)}), VX(s) = VY(s), in)

\* 0x9XY0
op_sne_reg(s, in) == skip_if(IndexRegs(s, {OpX(s), OpY(s)}), VX(s) # VY(s), in)

\* 0x6XNN
op_ld_imm(s, in) == AdvancePc(WriteReg(s, OpX(s), OpNN(s)), 2, in)

\* 0x7XNN: wrapping_add
op_add_imm(s, in) ==
  AdvancePc(WriteReg(IndexRegs(s, {OpX(s)}), OpX(s), (VX(s) + OpNN(s)) % U8Mod), 2, in)

\* 0x8XY0
op_mov(s, in) == AdvancePc(WriteReg(IndexRegs(s, {OpY(s)}), OpX(s), VY(s)), 2, in)

\* 0x8XY1
op_or(s, in) ==
  AdvancePc(WriteReg(IndexRegs(s, {OpX(s), OpY(s)}), OpX(s), BitOr(VX(s), VY(s))), 2, in)

\* 0x8XY2
op_and(s, in) ==
  AdvancePc(WriteReg(IndexRegs(s, {OpX(s), OpY(s)}), OpX(s), BitAnd(VX(s), VY(s))), 2, in)

\* 0x8XY3
op_xor(s, in) ==
  AdvancePc(WriteReg(IndexRegs(s, {OpX(s), OpY(s)}), OpX(s), BitXor(VX(s), VY(s))), 2, in)

\* Variant of op_add whose carry test is off by one (result >= 0xFF).
op_add_carry_off_by_one(s, in) ==
  LET result == VX(s) + VY(s)
      s1 == WriteReg(IndexRegs(s, {OpX(s), OpY(s)}), OpX(s), result % U8Mod)
      s2 == WriteReg(s1, 15, IF result >= 255 THEN 1 ELSE 0)
  IN  AdvancePc(s2, 2, in)

\* Variant of op_add that stores the sum in VY.
op_add_into_vy(s, in) ==
  LET result == VX(s) + VY(s)
      s1 == WriteReg(IndexRegs(s, {OpX(s), OpY(s)}), OpY(s), result % U8Mod)
      s2 == WriteReg(s1, 15, IF result > 255 THEN 1 ELSE 0)
  IN  AdvancePc(s2, 2, in)

\* 0x8XY4: the sum is computed in u16; result as u8 keeps the low byte.
op_add(s, in) ==
  LET result == VX(s) + VY(s)
      s1 == WriteReg(IndexRegs(s, {OpX(s), OpY(s)}), OpX(s), result % U8Mod)
      s2 == WriteReg(s1, 15, IF result > 255 THEN 1 ELSE 0)
  IN  AdvancePc(s2, 2, in)

\* Variant of op_sub that reports a borrow for equal operands (yval >= xval).
op_sub_borrow_on_equal(s, in) ==
  LET xval == VX(s)
      yval == VY(s)
      s1 == WriteReg(IndexRegs(s, {OpX(s), OpY(s)}), OpX(s), (xval - yval) % U8Mod)
      s2 == WriteReg(s1, 15, IF yval >= xval THEN 0 ELSE 1)
  IN  AdvancePc(s2, 2, in)

\* 0x8XY5: wrapping_sub
op_sub(s, in) ==
  LET xval == VX(s)
      yval == VY(s)
      s1 == WriteReg(IndexRegs(s, {OpX(s), OpY(s)}), OpX(s), (xval - yval) % U8Mod)
      s2 == WriteReg(s1, 15, IF yval > xval THEN 0 ELSE 1)
  IN  AdvancePc(s2, 2, in)

\* 0x8XY6: least_sig_bit = x & 0x1, with x the operand nibble.
op_shr(s, in) ==
  LET x == OpX(s)
      xval == VX(s)
      least_sig_bit == BitAnd(x, 1)
      s1 == WriteReg(IndexRegs(s, {x}), x, Shr(xval, 1))
      s2 == WriteReg(s1, 15, least_sig_bit)
  IN  AdvancePc(s2, 2, in)

\* 0x8XY7
op_subn(s, in) ==
  LET xval == VX(s)
      yval == VY(s)
      s1 == WriteReg(IndexRegs(s, {OpX(s), OpY(s)}), OpX(s), (yval - xval) % U8Mod)
      s2 == WriteReg(s1, 15, IF xval > yval THEN 0 ELSE 1)
  IN  AdvancePc(s2, 2, in)

\* 0x8XYE: most_sig_bit = (x & 0x80) >> 7, with x the operand nibble.
op_shl(s, in) ==
  LET x == OpX(s)
      xval == VX(s)
      most_sig_bit == Shr(BitAnd(x, 128), 7)
      s1 == WriteReg(IndexRegs(s, {x}), x, Shl(BitAnd(xval, 127), 1))
      s2 == WriteReg(s1, 15, most_sig_bit)
  IN  AdvancePc(s2, 2, in)

\* 0xANNN
op_ld_index(s, in) == AdvancePc(Live(s, [s EXCEPT !.index = OpNNN(s)]), 2, in)

\* 0xBNNN
op_jump_v0(s, in) ==
  LET target == At(s.registers, 0) + OpNNN(s)
      s1 == CheckU16(IndexRegs(s, {0}), target, in)
  IN  Live(s1, [s1 EXCEPT !.pc = Wrap16(target)])

\* 0xCXNN: in.rnd is the byte the random generator returns.
op_rnd(s, in) == AdvancePc(WriteReg(s, OpX(s), BitAnd(in.rnd, OpNN(s))), 2, in)

(***************************************************************************)
(* 0xDXYN.  x, y and n are the operand nibbles; the sprite row is read    *)
(* from memory[index + dy] and each set bit toggles gfx[(y+dy)*64+x+dx].  *)
(***************************************************************************)
\* Variant of draw_pixel that lights the cell instead of toggling it.
draw_pixel_lights(s, x, y, dx, dy, pixel) ==
  LET mask == Shl(1, 7 - dx)
      col == x + dx
      row == y + dy
      gfx_index == (row * ScreenWidth) + col
  IN  IF s.panicked \/ BitAnd(pixel, mask) = 0 THEN s
      ELSE IF ~GfxOk(gfx_index) THEN Panic(s)
      ELSE IF s.gfx[gfx_index] = 1
      THEN [s EXCEPT !.registers[15] = 1,
                     !.acc.gfx = @ \cup {<<col, row>>},
                     !.acc.registers = @ \cup {15}]
      ELSE queue_pixel([s EXCEPT !.gfx[gfx_index] = 1,
                                 !.acc.gfx = @ \cup {<<col, row>>}],
                       col, row, 1)

draw_pixel(s, x, y, dx, dy, pixel) ==
  LET mask == Shl(1, 7 - dx)
      col == x + dx
      row == y + dy
      gfx_index == (row * ScreenWidth) + col
  IN  IF s.panicked \/ BitAnd(pixel, mask) = 0 THEN s
      ELSE IF ~GfxOk(gfx_index) THEN Panic(s)
      ELSE IF s.gfx[gfx_index] = 1
      THEN queue_pixel([s EXCEPT !.registers[15] = 1,
                                 !.gfx[gfx_index] = BitXor(@, 1),
                                 !.acc.gfx = @ \cup {<<col, row>>},
                                 !.acc.registers = @ \cup {15}],
                       col, row, 0)
      ELSE queue_pixel([s EXCEPT !.gfx[gfx_index] = BitXor(@, 1),
                                 !.acc.gfx = @ \cup {<<col, row>>}],
                       col, row, 1)

RECURSIVE draw_cols(_, _, _, _, _, _)
draw_cols(s, x, y, dx, dy, pixel) ==
  IF dx = 8 \/ s.panicked THEN s
  ELSE draw_cols(draw_pixel(s, x, y, dx, dy, pixel), x, y, dx + 1, dy, pixel)

RECURSIVE draw_rows(_, _, _, _, _, _)
draw_rows(s, x, y, n, dy, in) ==
  IF dy = n \/ s.panicked THEN s
  ELSE LET addr == Wrap16(s.index + dy)
           s1 == IndexMem(CheckU16(s, s.index + dy, in), addr)
       IN  draw_rows(draw_cols(s1, x, y, 0, dy, At(s.memory, addr)), x, y, n, dy + 1, in)

\* Variant of op_draw without the reset of VF before the rows are drawn.
op_draw_keeps_flag(s, in) ==
  AdvancePc(draw_rows(s, OpX(s), OpY(s), OpN(s), 0, in), 2, in)

op_draw(s, in) ==
  AdvancePc(draw_rows(WriteReg(s, 15, 0), OpX(s), OpY(s), OpN(s), 0, in), 2, in)

(***************************************************************************)
(* Group 0xE: key tests.  The key index is the value held in VX.          *)
(***************************************************************************)
\* Variant of op_skp that reads the key slot without the bounds check.
op_skp_unchecked(s, in) ==
  LET key == VX(s)
  IN  skip_if(IndexRegs(s, {OpX(s)}), At(s.keys, key) # 0, in)

\* 0xEX9E
op_skp(s, in) ==
  LET key == VX(s)
  IN  skip_if(IndexKey(IndexRegs(s, {OpX(s)}), key), At(s.keys, key) # 0, in)

\* 0xEXA1
op_sknp(s, in) ==
  LET key == VX(s)
  IN  skip_if(IndexKey(IndexRegs(s, {OpX(s)}), key), At(s.keys, key) = 0, in)

(***************************************************************************)
(* Group 0xF.                                                              *)
(***************************************************************************)
\* Variant of op_bcd whose middle digit is val / 10, not reduced mod 10.
op_bcd_tens_unreduced(s, in) ==
  LET val == VX(s)
      high == val \div 100
      mid == val \div 10
      lower == val % 10
      s1 == WriteMem(IndexRegs(s, {OpX(s)}), s.index, high)
      s2 == WriteMem(s1, s.index + 1, mid)
      s3 == WriteMem(s2, s.index + 2, lower)
  IN  AdvancePc(s3, 2, in)

\* 0xFX33
op_bcd(s, in) ==
  LET val == VX(s)
      high == val \div 100
      mid == (val \div 10) % 10
      lower == val % 10
      s1 == WriteMem(IndexRegs(s, {OpX(s)}), s.index, high)
      s2 == WriteMem(s1, s.index + 1, mid)
      s3 == WriteMem(s2, s.index + 2, lower)
  IN  AdvancePc(s3, 2, in)

\* 0xFX15: self.delay_timer = x, with x the operand nibble.
op_ld_delay(s, in) == AdvancePc(Live(s, [s EXCEPT !.delay_timer = OpX(s)]), 2, in)

\* 0xFX55
op_reg_dump(s, in) == AdvancePc(reg_dump(s, OpX(s), in), 2, in)

\* 0xFX65
op_reg_load(s, in) == AdvancePc(reg_load(s, OpX(s), in), 2, in)

\* 0xFX07
op_get_delay(s, in) == AdvancePc(WriteReg(s, OpX(s), s.delay_timer), 2, in)

\* 0xFX18: self.sound_timer = x, with x the operand nibble.
op_ld_sound(s, in) == AdvancePc(Live(s, [s EXCEPT !.sound_timer = OpX(s)]), 2, in)

\* 0xFX29
op_font(s, in) ==
  LET s1 == IndexRegs(s, {OpX(s)})
  IN  AdvancePc(Live(s1, [s1 EXCEPT !.index = VX(s) * 5]), 2, in)

\* Variant of key_scan that ends with the lowest pressed key in VX.
RECURSIVE key_scan_lowest(_, _, _)
key_scan_lowest(s, x, k) ==
  IF k = NumKeys \/ s.panicked THEN s
  ELSE LET rest == key_scan_lowest(IndexKey(s, k), x, k + 1)
       IN  IF At(s.keys, k) # 0 THEN WriteReg(rest, x, k) ELSE rest

\* 0xFX0A: the scan for k in 0..16; every pressed key is stored in turn.
RECURSIVE key_scan(_, _, _)
key_scan(s, x, k) ==
  IF k = NumKeys \/ s.panicked THEN s
  ELSE LET s1 == IndexKey(s, k)
       IN  key_scan(IF At(s.keys, k) # 0 THEN WriteReg(s1, x, k) ELSE s1, x, k + 1)

\* Variant of op_wait_key without the early return of a stalled wait.
op_wait_key_always_advances(s, in) == AdvancePc(key_scan(s, OpX(s), 0), 2, in)

op_wait_key(s, in) ==
  LET pressed == \E k \in 0..(NumKeys - 1) : s.keys[k] # 0
      s1 == key_scan(s, OpX(s), 0)
  IN  IF pressed THEN AdvancePc(s1, 2, in) ELSE s1

\* 0xFX1E: self.index += VX
op_add_index(s, in) ==
  LET sum == s.index + VX(s)
      s1 == CheckU16(IndexRegs(s, {OpX(s)}), sum, in)
  IN  AdvancePc(Live(s1, [s1 EXCEPT !.index = Wrap16(sum)]), 2, in)

(***************************************************************************)
(* The match of perform_opcode.                                            *)
(***************************************************************************)
decode(s, in) ==
  LET group == BitAnd(s.opcode, 61440) \div 4096
      low == BitAnd(s.opcode, 15)
      third == BitAnd(s.opcode, 240) \div 16
  IN  CASE group = 0 ->
             (CASE low = 0 -> op_clear(s, in)
                [] low = 14 -> op_ret(s, in)
                [] OTHER -> op_nop(s, in))
        [] group = 1 -> op_jump(s, in)
        [] group = 2 -> op_call(s, in)
        [] group = 3 -> op_se_imm(s, in)
        [] group = 4 -> op_sne_imm(s, in)
        [] group = 5 -> op_se_reg(s, in)
        [] group = 6 -> op_ld_imm(s, in)
        [] group = 7 -> op_add_imm(s, in)
        [] group = 8 ->
             (CASE low = 0 -> op_mov(s, in)
                [] low = 1 -> op_or(s, in)
                [] low = 2 -> op_and(s, in)
                [] low = 3 -> op_xor(s, in)
                [] low = 4 -> op_add(s, in)
                [] low = 5 -> op_sub(s, in)
                [] low = 6 -> op_shr(s, in)
                [] low = 7 -> op_subn(s, in)
                [] low = 14 -> op_shl(s, in)
                [] OTHER -> op_nop(s, in))
        [] group = 9 -> op_sne_reg(s, in)
        [] group = 10 -> op_ld_index(s, in)
        [] group = 11 -> op_jump_v0(s, in)
        [] group = 12 -> op_rnd(s, in)
        [] group = 13 -> op_draw(s, in)
        [] group = 14 ->
             (CASE low = 14 -> op_skp(s, in)
                [] low = 1 -> op_sknp(s, in)
                [] OTHER -> op_nop(s, in))
        [] OTHER ->
             (CASE low = 3 -> op_bcd(s, in)
                [] low = 5 ->
                     (CASE third = 1 -> op_ld_delay(s, in)
                        [] third = 5 -> op_reg_dump(s, in)
                        [] third = 6 -> op_reg_load(s, in)
                        [] OTHER -> op_nop(s, in))
                [] low = 7 -> op_get_delay(s, in)
                [] low = 8 -> op_ld_sound(s, in)
                [] low = 9 -> op_font(s, in)
                [] low = 10 -> op_wait_key(s, in)
                [] low = 14 -> op_add_index(s, in)
                [] OTHER -> op_nop(s, in))

perform_opcode(s, in) ==
  LET f == fetch(s)
  IN  IF f.panicked THEN f ELSE decode(f, in)

(***************************************************************************)
(* cycle(): one opcode, then the timers.                                   *)
(***************************************************************************)
\* Variant of tick_timers without the "> 0" guards (wrapping decrements).
tick_timers_unguarded(s) ==
  [s EXCEPT !.delay_timer = (@ - 1) % U8Mod,
            !.sound_timer = (@ - 1) % U8Mod,
            !.beep = (s.sound_timer = 1)]

\* Variant of tick_timers that also beeps when the delay timer runs out.
tick_timers_beep_on_delay(s) ==
  LET s1 == IF s.delay_timer > 0
            THEN [s EXCEPT !.beep = (s.delay_timer = 1), !.delay_timer = @ - 1]
            ELSE s
  IN  IF s1.sound_timer > 0
      THEN [s1 EXCEPT !.beep = (@ \/ s1.sound_timer = 1), !.sound_timer = @ - 1]
      ELSE s1

tick_timers(s) ==
  LET s1 == IF s.delay_timer > 0 THEN [s EXCEPT !.delay_timer = @ - 1] ELSE s
  IN  IF s1.sound_timer > 0
      THEN [s1 EXCEPT !.beep = (s1.sound_timer = 1), !.sound_timer = @ - 1]
      ELSE s1

cycle(s, in) ==
  LET s0 == [s EXCEPT !.acc = NoAccess, !.beep = FALSE]
      s1 == perform_opcode(s0, in)
      s2 == IndexRegs(s1, {0, 1})
      s3 == Live(s2, tick_timers(s2))
  IN  IF s3.panicked
      THEN [s EXCEPT !.panicked = TRUE, !.beep = FALSE, !.acc = s3.acc]
      ELSE s3

(***************************************************************************)
(* Program images.  A program is a sequence of 16-bit words, stored big-  *)
(* endian from 0x200; W(a, b, c, d) is the word with those four nibbles.  *)
(***************************************************************************)
W(a, b, c, d) == (a * 4096) + (b * 256) + (c * 16) + d

\* The address of the k-th word (from 0) of a program.
WordAddr(k) == ProgStart + (2 * k)

\* 1NNN to the instruction's own address: the program stays there.
Halt(k) == 4096 + WordAddr(k)

RECURSIVE Bytes(_)
Bytes(words) ==
  IF words = <<>> THEN <<>>
  ELSE <<Head(words) \div 256, Head(words) % 256>> \o Bytes(Tail(words))

RegValues == {0, 1, 128, 255}
ArithX == {0, 1, 14, 15}
ArithY == {1, 15}
ArithOps == {0, 1, 2, 3, 4, 5, 6, 7, 14, 8}

\* 6Xaa 6Ybb 8XYk
ArithPrograms ==
  { <<W(6, x, a \div 16, a % 16), W(6, y, b \div 16, b % 16), W(8, x, y, k), Halt(3)>> :
      x \in ArithX, y \in ArithY, a \in RegValues, b \in {1, 255}, k \in ArithOps }

\* A chain of d nested subroutines: the k-th calls the next, the last returns.
RECURSIVE Subroutines(_, _)
Subroutines(k, d) ==
  IF k = d THEN <<W(0, 0, 14, 14), W(0, 0, 14, 14)>>
  ELSE <<W(2, 0, 0, 0) + WordAddr(2 * (k + 1)), W(0, 0, 14, 14)>> \o Subroutines(k + 1, d)

CallPrograms ==
  { <<W(2, 0, 0, 0) + WordAddr(2), Halt(1)>> \o Subroutines(1, d) : d \in 1..MaxNest }
  \cup { <<W(2, 2, 0, 0)>>,                     \* calls itself
         <<W(0, 0, 14, 14)>>,                   \* returns with an empty stack
         <<W(6, 0, 0, 2), W(11, 2, 0, 4), Halt(2), Halt(3)>>,  \* B204 with V0 = 2
         <<W(6, 0, 15, 15), W(11, 15, 15, 15)>>, \* BFFF with V0 = 255
         <<W(1, 15, 15, 15)>>,                  \* jump to the last byte
         <<W(1, 15, 15, 14)>>,                  \* jump to the last word
         <<W(1, 0, 0, 0)>> }                    \* jump into the font

UnknownWords ==
  { W(0, 0, 0, 1), W(0, 1, 2, 3), W(8, 1, 2, 8), W(8, 0, 0, 15), W(14, 0, 0, 0),
    W(14, 1, 9, 15), W(15, 0, 0, 0), W(15, 1, 2, 5), W(15, 2, 7, 5), W(15, 3, 0, 1) }

\* An unknown word first, or after registers and timers were loaded.
UnknownPrograms ==
  { <<w, Halt(1)>> : w \in UnknownWords }
  \cup { <<W(6, 1, 0, 7), W(15, 3, 1, 5), W(15, 2, 1, 8), w, Halt(4)>> : w \in UnknownWords }

\* FX15 FY18 FZ07 FZ0A, then an unknown word; and words the FX18 and FX07
\* arms also match (the match looks at the low nibble only).
TimerPrograms ==
  { <<W(15, x, 1, 5), W(15, y, 1, 8), W(15, z, 0, 7), W(15, z, 0, 10), W(0, 0, 0, 1)>> :
      x \in {0, 2, 5}, y \in {0, 1, 3}, z \in {0, 3} }
  \cup { <<W(15, 2, 2, 8), W(15, 4, 1, 5), W(15, 1, 3, 7), Halt(3)>> }

\* 6Xkk, then a key test or a key wait.
KeyPrograms ==
  { <<W(6, x, 0, k), W(14, x, 9, 14), Halt(2), Halt(3)>> : x \in {0, 5}, k \in {0, 15} }
  \cup { <<W(6, x, 0, k), W(14, x, 10, 1), Halt(2), Halt(3)>> : x \in {0, 5}, k \in {0, 15} }
  \cup { <<W(6, 0, 1, 0), W(14, 0, 9, 14)>>, <<W(6, 0, 15, 15), W(14, 0, 10, 1)>> }
  \cup { <<W(15, x, 0, 10), Halt(1)>> : x \in {0, 5, 15} }

\* ANNN 6Xvv, then an opcode that uses index.
MemoryPrograms ==
  { <<W(10, 0, 0, 0) + nnn, W(6, 2, 9, 13), op, Halt(3)>> :
      nnn \in {768, 4093, 4094, 4095},
      op \in { W(15, 2, 3, 3), W(15, 2, 5, 5), W(15, 2, 6, 5), W(15, 2, 1, 14),
               W(15, 2, 2, 9), W(13, 0, 0, 2) } }

BcdValues == {0, 9, 10, 99, 100, 199, 255}

\* A300 6Xvv FX33
BcdPrograms ==
  { <<W(10, 3, 0, 0), W(6, x, v \div 16, v % 16), W(15, x, 3, 3), Halt(3)>> :
      x \in {0, 14}, v \in BcdValues }

\* ANNN, V0 = a, V1 = 7, V2 = 11, FX55, then V0, V1 and V2 overwritten with
\* c, then FX65.
RoundTripPrograms ==
  { <<W(10, 0, 0, 0) + nnn, W(6, 0, a \div 16, a % 16), W(6, 1, 0, 7), W(6, 2, 0, 11),
      W(15, x, 5, 5),
      W(6, 0, c \div 16, c % 16), W(6, 1, c \div 16, c % 16), W(6, 2, c \div 16, c % 16),
      W(15, x, 6, 5), Halt(9)>> :
      nnn \in {768, 4094}, a \in {1, 255}, c \in {0, 254}, x \in {0, 1, 15} }

\* Sprites drawn from the font, once, twice and a third time.
DrawPrograms ==
  { <<W(10, 0, 0, 0) + nnn, W(6, 1, 0, 3), W(13, x, y, n), W(13, x, y, n), W(13, x, y, n),
      Halt(5)>> :
      nnn \in {0, 75}, x \in {0, 15}, y \in {1, 15}, n \in {0, 5, 15} }

\* V0 = 5, V1 = 3, V0 += V1, then the zero words of the buffer.
ScenarioProgram == <<W(6, 0, 0, 5), W(6, 1, 0, 3), W(8, 0, 1, 4), W(0, 0, 0, 0)>>

RndPrograms == { <<W(12, 0, 15, 15), W(12, 1, 0, 15), W(7, 1, 15, 1), Halt(3)>> }

SkipPrograms ==
  { <<W(6, 0, 0, 7), W(6, 1, 0, v), op, Halt(3), Halt(4)>> :
      v \in {7, 8}, op \in {W(3, 0, 0, 7), W(4, 0, 0, 7), W(5, 0, 1, 0), W(9, 0, 1, 0)} }

Programs ==
  ArithPrograms \cup CallPrograms \cup UnknownPrograms \cup TimerPrograms
  \cup KeyPrograms \cup MemoryPrograms \cup DrawPrograms \cup RndPrograms \cup SkipPrograms
  \cup BcdPrograms \cup RoundTripPrograms

\* The program of a caller of the whole public interface: it loads a
\* register and the delay timer, draws and enters a subroutine.
DrawCallProgram ==
  <<W(6, 10, 0, 7), W(15, 2, 1, 5), W(10, 0, 0, 5), W(13, 1, 2, 5),
    W(2, 0, 0, 0) + WordAddr(6), Halt(5), Halt(6)>>

\* An image with no zero byte, of the full 3584 bytes.
FullRom == [i \in 0..(MemSize - ProgStart - 1) |-> (i % 255) + 1]

\* The images handed to load_rom.
ApiRoms == <<RomBuffer(Bytes(DrawCallProgram)), FullRom>>

\* A 4096-byte image with other bytes where the font was.
Image(rom) ==
  [a \in 0..(MemSize - 1) |->
     IF a < ProgStart THEN ((3 * a) + 1) % U8Mod ELSE rom[a - ProgStart]]

\* The images handed to set_mem.
ApiImages == <<Image(RomBuffer(Bytes(DrawCallProgram)))>>

\* The key this caller presses and releases.
ApiKey == 15

\* The keys the driver delivers, and the bytes the random generator returns.
KeySet == (0..MaxLowKey) \cup {15}
RandBytes == {0, 165, 255}

(***************************************************************************)
(* The state machine.                                                      *)
(***************************************************************************)
VARIABLE vm

vars == <<vm>>

\* main.rs: Chip8::new(), then load_rom of the file's bytes.
Boot(program) == load_rom(Chip8_new, RomBuffer(Bytes(program)))

Init == \E program \in Programs : vm = Boot(program)

\* Variant of drain that takes the newest record first.
RECURSIVE drain_newest_first(_)
drain_newest_first(s) ==
  IF s.draw_queue = <<>> THEN s
  ELSE LET n == Len(s.draw_queue)
       IN  drain_newest_first([s EXCEPT !.draw_queue = SubSeq(@, 1, n - 1),
                                        !.painted = Append(@, s.draw_queue[n])])

\* while !draw_queue.is_empty(): pop_front() and paint the block of the
\* record; painted lists the records in the order the pass painted them.
RECURSIVE drain(_)
drain(s) ==
  IF s.draw_queue = <<>> THEN s
  ELSE drain([s EXCEPT !.draw_queue = Tail(@),
                       !.painted = Append(@, Head(s.draw_queue))])

\* The presenting tail of a pass of the event loop.
present(s) ==
  LET s1 == IF s.redraw THEN [s EXCEPT !.redraw = FALSE] ELSE s
  IN  drain([s1 EXCEPT !.painted = <<>>])

\* The tail has something to do.
PresentPending(s) == s.redraw \/ s.draw_queue # <<>>

\* The word cycle() would fetch.
NextWord(s) == BitOr(Shl(At(s.memory, s.pc), 8), At(s.memory, s.pc + 1))

\* Whether some u16 sum or difference of the next cycle can leave 0..65535:
\* pc += 2 or 4 (after a return, from a stack slot), the sprite and bulk
\* offsets index + 0..16, index += VX, sp += 1, and sp -= 1 at sp = 0 in
\* group 0.  BNNN's V0 + NNN is at most 255 + 4095.
MayOverflow(s) ==
  \/ s.pc + 4 >= U16Mod
  \/ s.index + 256 >= U16Mod
  \/ s.sp + 1 >= U16Mod
  \/ s.sp = 0 /\ NextWord(s) \div 4096 = 0
  \/ \E i \in 0..(StackSize - 1) : s.stack[i] + 2 >= U16Mod

\* What a cycle takes from outside the VM: the random byte, drawn only by
\* the 0xCXNN arm, and the build's overflow checks, which decide nothing
\* in a cycle that cannot overflow.
CycleInputs(s) ==
  [rnd : IF NextWord(s) \div 4096 = 12 THEN RandBytes ELSE {0},
   overflow_checks : IF MayOverflow(s) THEN BOOLEAN ELSE {FALSE}]

\* The event loop calls cycle(); after a panic the process is gone.  An
\* event is handled only after the pass before it has presented.
Cycle ==
  /\ ~vm.panicked
  /\ ~PresentPending(vm)
  /\ \E in \in CycleInputs(vm) : vm' = cycle(vm, in)

KeyPressed ==
  /\ ~vm.panicked
  /\ ~PresentPending(vm)
  /\ \E k \in KeySet : vm' = key_pressed(vm, k)

KeyReleased ==
  /\ ~vm.panicked
  /\ ~PresentPending(vm)
  /\ \E k \in KeySet : vm' = key_released(vm, k)

\* The tail of a pass of the event loop: a requested redraw repaints the
\* window from gfx and withdraws the request, then the queue is drained.
Present ==
  /\ ~vm.panicked
  /\ PresentPending(vm)
  /\ vm' = present(vm)

Next == Cycle \/ KeyPressed \/ KeyReleased \/ Present

Spec == Init /\ [][Next]_vars

(***************************************************************************)
(* A caller of every public method: besides the driver's calls, load_rom, *)
(* set_mem and init() at any time.  cycle() is called while pc is within  *)
(* the first MaxApiWords words of the program area.                       *)
(***************************************************************************)
ApiInit == vm = Boot(DrawCallProgram)

ApiCycle ==
  /\ vm.pc < WordAddr(MaxApiWords)
  /\ Cycle

ApiKeyPressed ==
  /\ ~vm.panicked
  /\ ~PresentPending(vm)
  /\ vm' = key_pressed(vm, ApiKey)

ApiKeyReleased ==
  /\ ~vm.panicked
  /\ ~PresentPending(vm)
  /\ vm' = key_released(vm, ApiKey)

LoadRom ==
  /\ ~vm.panicked
  /\ ~PresentPending(vm)
  /\ \E k \in DOMAIN ApiRoms : vm' = load_rom(vm, ApiRoms[k])

SetMem ==
  /\ ~vm.panicked
  /\ ~PresentPending(vm)
  /\ \E k \in DOMAIN ApiImages : vm' = set_mem(vm, ApiImages[k])

Reset ==
  /\ ~vm.panicked
  /\ ~PresentPending(vm)
  /\ vm' = [Chip8_init(vm) EXCEPT !.acc = NoAccess, !.beep = FALSE]

ApiNext ==
  ApiCycle \/ ApiKeyPressed \/ ApiKeyReleased \/ Present \/ LoadRom \/ SetMem \/ Reset

ApiSpec == ApiInit /\ [][ApiNext]_vars

\* The driver started on the file that holds the scenario's eight bytes.
ScenarioInit == vm = Boot(ScenarioProgram)

ScenarioSpec == ScenarioInit /\ [][Next]_vars

(***************************************************************************)
(* Vocabulary of the properties: the state before a cycle, the word the   *)
(* cycle will fetch, and runs of several cycles.                          *)
(***************************************************************************)
Running == ~vm.panicked
Fetchable(s) == MemOk(s.pc) /\ MemOk(s.pc + 1)
Word == NextWord(vm)
Nib(w, i) == Shr(w, 4 * i) % 16
AtWord == Running /\ Fetchable(vm)

\* The words that reach a "_ => println!(NOP)" arm of perform_opcode.
IsUnknown(w) ==
  \/ Nib(w, 3) = 0 /\ Nib(w, 0) \notin {0, 14}
  \/ Nib(w, 3) = 8 /\ Nib(w, 0) \notin {0, 1, 2, 3, 4, 5, 6, 7, 14}
  \/ Nib(w, 3) = 14 /\ Nib(w, 0) \notin {1, 14}
  \/ Nib(w, 3) = 15 /\ Nib(w, 0) \notin {3, 5, 7, 8, 9, 10, 14}
  \/ Nib(w, 3) = 15 /\ Nib(w, 0) = 5 /\ Nib(w, 1) \notin {1, 5, 6}

IsWaitKey(w) == Nib(w, 3) = 15 /\ Nib(w, 1) = 0 /\ Nib(w, 0) = 10
IsCall(w) == Nib(w, 3) = 2
IsRet(w) == w = W(0, 0, 14, 14)
IsLdDelay(w) == Nib(w, 3) = 15 /\ Nib(w, 1) = 1 /\ Nib(w, 0) = 5
IsLdSound(w) == Nib(w, 3) = 15 /\ Nib(w, 0) = 8
IsDraw(w) == Nib(w, 3) = 13
IsSkp(w) == Nib(w, 3) = 14 /\ Nib(w, 1) = 9 /\ Nib(w, 0) = 14
IsSknp(w) == Nib(w, 3) = 14 /\ Nib(w, 1) = 10 /\ Nib(w, 0) = 1
IsRegDump(w) == Nib(w, 3) = 15 /\ Nib(w, 1) = 5 /\ Nib(w, 0) = 5
IsGetDelay(w) == Nib(w, 3) = 15 /\ Nib(w, 1) = 0 /\ Nib(w, 0) = 7
IsFont(w) == Nib(w, 3) = 15 /\ Nib(w, 1) = 2 /\ Nib(w, 0) = 9
IsBcd(w) == Nib(w, 3) = 15 /\ Nib(w, 1) = 3 /\ Nib(w, 0) = 3

NoKeyDown(s) == \A k \in 0..15 : s.keys[k] = 0
OnlyKeyDown(s, k) == s.keys[k] # 0 /\ \A j \in (0..15) \ {k} : s.keys[j] = 0

\* n further cycles (fewer when one panics).
RECURSIVE Cycles(_, _, _)
Cycles(s, n, in) ==
  IF n = 0 \/ s.panicked THEN s ELSE Cycles(cycle(s, in), n - 1, in)

\* Cycles until the stack is back at depth d, at most fuel of them.
RECURSIVE RunToDepth(_, _, _, _)
RunToDepth(s, d, fuel, in) ==
  IF fuel = 0 \/ s.panicked \/ s.sp <= d THEN s
  ELSE RunToDepth(cycle(s, in), d, fuel - 1, in)

\* The fields a cycle of an unknown word may not change.
SameButPcOpcodeTimers(s, t) ==
  /\ t.memory = s.memory
  /\ t.registers = s.registers
  /\ t.index = s.index
  /\ t.gfx = s.gfx
  /\ t.stack = s.stack
  /\ t.sp = s.sp
  /\ t.keys = s.keys

KeysDown(s) == { k \in 0..(NumKeys - 1) : s.keys[k] # 0 }
Highest(S) == CHOOSE k \in S : \A j \in S : j <= k

\* Cycles until the next word is w, at most fuel of them.
RECURSIVE RunToWord(_, _, _, _)
RunToWord(s, w, fuel, in) ==
  IF fuel = 0 \/ s.panicked \/ ~Fetchable(s) \/ NextWord(s) = w THEN s
  ELSE RunToWord(cycle(s, in), w, fuel - 1, in)

Dec(v) == IF v > 0 THEN v - 1 ELSE 0

\* The number of the next n cycles that print BEEP.
RECURSIVE BeepCount(_, _, _)
BeepCount(s, n, in) ==
  IF n = 0 THEN 0
  ELSE LET t == cycle(s, in)
       IN  (IF t.beep THEN 1 ELSE 0) + BeepCount(t, n - 1, in)

\* The next n cycles complete and none of them writes the sound timer.
RECURSIVE Undisturbed(_, _, _)
Undisturbed(s, n, in) ==
  \/ n = 0
  \/ /\ ~s.panicked
     /\ Fetchable(s)
     /\ ~IsLdSound(NextWord(s))
     /\ ~cycle(s, in).panicked
     /\ Undisturbed(cycle(s, in), n - 1, in)

(***************************************************************************)
(* C1.  Every slot a cycle indexes lies inside its array: memory          *)
(* addresses in 0..4095 (the fetch at pc and pc+1, the sprite rows, the   *)
(* BCD digits, the bulk register store and load), registers in 0..15 and  *)
(* screen cells inside the 64x32 grid.  An index outside the array raises *)
(* a panic before the slot is touched.                                     *)
(***************************************************************************)
C1_AccessesInBounds ==
  /\ vm.acc.memory \subseteq 0..(MemSize - 1)
  /\ vm.acc.registers \subseteq 0..(NumRegs - 1)
  /\ \A c \in vm.acc.gfx : c[1] \in 0..(ScreenWidth - 1) /\ c[2] \in 0..(ScreenHeight - 1)

\* FX33 with index = 4094: the two digits at 4094 and 4095 were stored and
\* the third store, at 4096, panicked.
C1_Witness ==
  /\ vm.panicked
  /\ Word = W(15, 2, 3, 3)
  /\ vm.index = 4094
  /\ {4094, 4095} \subseteq vm.acc.memory

(***************************************************************************)
(* C2.  A cycle on a word that is not a defined opcode advances pc by 2   *)
(* and changes nothing else but the opcode and the timers.                *)
(***************************************************************************)
C2_UnknownAdvancesPc ==
  (AtWord /\ IsUnknown(Word)) =>
    \A in \in CycleInputs(vm) :
      LET t == cycle(vm, in)
      IN  /\ ~t.panicked
          /\ t.pc = vm.pc + 2
          /\ SameButPcOpcodeTimers(vm, t)

(***************************************************************************)
(* C3.  Key wait (FX0A).  With no key down, cycles leave pc where it is;  *)
(* once exactly one key k is down, the next cycle stores k in VX and      *)
(* advances pc by 2.                                                       *)
(***************************************************************************)
C3_KeyWait ==
  (AtWord /\ IsWaitKey(Word)) =>
    \A in \in CycleInputs(vm) :
      /\ NoKeyDown(vm) =>
           \A n \in 1..MaxStall :
             LET stalled == Cycles(vm, n, in)
             IN  /\ ~stalled.panicked
                 /\ stalled.pc = vm.pc
                 /\ stalled.registers = vm.registers
                 /\ \A k \in 0..15 :
                      LET t == cycle(key_pressed(stalled, k), in)
                      IN  /\ ~t.panicked
                          /\ t.registers[Nib(Word, 2)] = k
                          /\ t.pc = vm.pc + 2
      /\ \A k \in 0..15 :
           OnlyKeyDown(vm, k) =>
             LET t == cycle(vm, in)
             IN  /\ ~t.panicked
                 /\ t.registers[Nib(Word, 2)] = k
                 /\ t.pc = vm.pc + 2

\* The wait at 0x200 ended with key 15, the only key down, stored in V5.
C3_Witness ==
  /\ Running
  /\ vm.opcode = W(15, 5, 0, 10)
  /\ vm.pc = WordAddr(1)
  /\ OnlyKeyDown(vm, 15)
  /\ vm.registers[5] = 15

(***************************************************************************)
(* C4.  Call and return.  2NNN at p with sp < 16 enters NNN with sp + 1;  *)
(* when the stack is next back at its depth before the call, pc = p + 2   *)
(* (so nested calls return last-in first-out); with 00EE at NNN that is    *)
(* after exactly two cycles.                                               *)
(***************************************************************************)
C4_CallReturn ==
  (AtWord /\ IsCall(Word) /\ vm.sp < StackSize) =>
    \A in \in CycleInputs(vm) :
      LET nnn == Word % 4096
          called == cycle(vm, in)
          back == RunToDepth(called, vm.sp, 2 * (MaxNest + 1), in)
      IN  /\ ~called.panicked
          /\ called.pc = nnn
          /\ called.sp = vm.sp + 1
          /\ (~back.panicked /\ back.sp = vm.sp) => back.pc = vm.pc + 2
          /\ (Fetchable(called) /\ IsRet(NextWord(called))) =>
               LET returned == cycle(called, in)
               IN  /\ ~returned.panicked
                   /\ returned.pc = vm.pc + 2
                   /\ returned.sp = vm.sp

\* The inner of two nested subroutines has returned into the outer one.
C4_Witness ==
  /\ Running
  /\ vm.opcode = W(0, 0, 14, 14)
  /\ vm.sp = 1
  /\ vm.stack[0] = WordAddr(0)
  /\ vm.stack[1] = WordAddr(2)
  /\ vm.pc = WordAddr(3)

(***************************************************************************)
(* C5.  sp stays within 0..16 and only stack slots 0..15 are indexed; a   *)
(* call at sp = 16 and a return at sp = 0 panic, and after a panic no     *)
(* step of the VM is possible.                                             *)
(***************************************************************************)
C5_StackFaults ==
  /\ vm.sp \in 0..StackSize
  /\ vm.acc.stack \subseteq 0..(StackSize - 1)
  /\ (AtWord /\ IsCall(Word) /\ vm.sp = StackSize) =>
       \A in \in CycleInputs(vm) : cycle(vm, in).panicked
  /\ (AtWord /\ IsRet(Word) /\ vm.sp = 0) =>
       \A in \in CycleInputs(vm) : cycle(vm, in).panicked
  /\ vm.panicked => ~ENABLED Next

\* The seventeenth nested call found the stack full.
C5_Witness ==
  /\ vm.panicked
  /\ vm.sp = StackSize
  /\ IsCall(Word)
  /\ vm.acc.stack = {}

(***************************************************************************)
(* C6.  Addition (8XY4) with X in 0..14: VX = (a + b) mod 256, VF = 1 iff *)
(* a + b > 255, pc advanced by 2.                                          *)
(***************************************************************************)
C6_Add ==
  (AtWord /\ Nib(Word, 3) = 8 /\ Nib(Word, 0) = 4 /\ Nib(Word, 2) # 15) =>
    \A in \in CycleInputs(vm) :
      LET a == vm.registers[Nib(Word, 2)]
          b == vm.registers[Nib(Word, 1)]
          t == cycle(vm, in)
      IN  /\ ~t.panicked
          /\ t.registers[Nib(Word, 2)] = (a + b) % 256
          /\ t.registers[15] = (IF a + b > 255 THEN 1 ELSE 0)
          /\ t.pc = vm.pc + 2

\* 8014 added V1 = 255 to V0 = 1: V0 = 0 with the carry set.
C6_Witness ==
  /\ Running
  /\ vm.opcode = W(8, 0, 1, 4)
  /\ vm.pc = WordAddr(3)
  /\ vm.registers[1] = 255
  /\ vm.registers[0] = 0
  /\ vm.registers[15] = 1

(***************************************************************************)
(* C7.  Subtraction (8XY5) with X in 0..14: VX = (a - b) mod 256, VF = 0  *)
(* iff b > a, and the cycle does not panic on underflow.                  *)
(***************************************************************************)
C7_Sub ==
  (AtWord /\ Nib(Word, 3) = 8 /\ Nib(Word, 0) = 5 /\ Nib(Word, 2) # 15) =>
    \A in \in CycleInputs(vm) :
      LET a == vm.registers[Nib(Word, 2)]
          b == vm.registers[Nib(Word, 1)]
          t == cycle(vm, in)
      IN  /\ ~t.panicked
          /\ t.registers[Nib(Word, 2)] = (a - b) % 256
          /\ t.registers[15] = (IF b > a THEN 0 ELSE 1)
          /\ t.pc = vm.pc + 2

\* 8015 subtracted V1 = 255 from V0 = 128: V0 = 129 with a borrow.
C7_Witness ==
  /\ Running
  /\ vm.opcode = W(8, 0, 1, 5)
  /\ vm.pc = WordAddr(3)
  /\ vm.registers[1] = 255
  /\ vm.registers[0] = 129
  /\ vm.registers[15] = 0

(***************************************************************************)
(* C8.  Shifts with X in 0..14 and v = VX: 8XY6 leaves VX = v div 2 and   *)
(* VF = v mod 2; 8XYE leaves VX = 2v mod 256 and VF = v div 128.          *)
(***************************************************************************)
C8_Shifts ==
  (AtWord /\ Nib(Word, 3) = 8 /\ Nib(Word, 0) \in {6, 14} /\ Nib(Word, 2) # 15) =>
    \A in \in CycleInputs(vm) :
      LET v == vm.registers[Nib(Word, 2)]
          t == cycle(vm, in)
      IN  IF Nib(Word, 0) = 6
          THEN t.registers[Nib(Word, 2)] = v \div 2 /\ t.registers[15] = v % 2
          ELSE t.registers[Nib(Word, 2)] = (2 * v) % 256 /\ t.registers[15] = v \div 128

C11_DrawTwice ==
  (AtWord /\ IsDraw(Word) /\ Nib(Word, 2) # 15 /\ Nib(Word, 1) # 15) =>
    \A in \in CycleInputs(vm) :
      LET once == cycle(vm, in)
          twice == cycle(once, in)
      IN  (/\ ~once.panicked
           /\ Fetchable(once)
           /\ NextWord(once) = Word
           /\ once.index = vm.index
           /\ \A a \in 0..(MemSize - 1) : once.memory[a] = vm.memory[a]
           /\ ~twice.panicked)
          => \A g \in 0..(GfxSize - 1) : twice.gfx[g] = vm.gfx[g]

\* The second D015 put out every cell the first one lit: the screen is
\* blank again and the collisions left VF = 1.
C11_Witness ==
  /\ Running
  /\ vm.opcode = W(13, 0, 1, 5)
  /\ vm.pc = WordAddr(4)
  /\ vm.index = 0
  /\ vm.registers[15] = 1
  /\ \A g \in 0..(GfxSize - 1) : vm.gfx[g] = 0

(***************************************************************************)
(* C12.  After a DXYN cycle, whatever VF held before, VF = 1 iff some     *)
(* screen cell that was on before the draw is off after it, and VF = 0    *)
(* otherwise (N = 0 and an all-zero sprite included).                     *)
(***************************************************************************)
C12_DrawCollision ==
  (AtWord /\ IsDraw(Word)) =>
    \A in \in CycleInputs(vm) :
      LET t == cycle(vm, in)
          collided == \E g \in 0..(GfxSize - 1) : vm.gfx[g] = 1 /\ t.gfx[g] = 0
      IN  ~t.panicked => t.registers[15] = (IF collided THEN 1 ELSE 0)

\* The third D015 found VF = 1 from the second and a blank screen: it lit
\* the glyph and left VF = 0.
C12_Witness ==
  /\ Running
  /\ vm.opcode = W(13, 0, 1, 5)
  /\ vm.pc = WordAddr(5)
  /\ vm.index = 0
  /\ vm.registers[15] = 0
  /\ vm.gfx[ScreenWidth] = 1

C14_Bcd ==
  (AtWord /\ IsBcd(Word) /\ vm.index + 2 <= MemSize - 1) =>
    \A in \in CycleInputs(vm) :
      LET v == vm.registers[Nib(Word, 2)]
          t == cycle(vm, in)
          h == t.memory[vm.index]
          m == t.memory[vm.index + 1]
          o == t.memory[vm.index + 2]
      IN  /\ ~t.panicked
          /\ {h, m, o} \subseteq 0..9
          /\ (100 * h) + (10 * m) + o = v
          /\ v = 157 => <<h, m, o>> = <<1, 5, 7>>
          /\ t.index = vm.index
          /\ t.registers = vm.registers
          /\ \A a \in (0..(MemSize - 1)) \ {vm.index, vm.index + 1, vm.index + 2} :
               t.memory[a] = vm.memory[a]

\* F233 with V2 = 157 stored 1, 5, 7 in the last three bytes of memory.
C14_Witness ==
  /\ Running
  /\ vm.opcode = W(15, 2, 3, 3)
  /\ vm.pc = WordAddr(3)
  /\ vm.index = 4093
  /\ vm.registers[2] = 157
  /\ vm.memory[4093] = 1
  /\ vm.memory[4094] = 5
  /\ vm.memory[4095] = 7

(***************************************************************************)
(* C15.  load_rom, called in any state with an image of 3584 bytes,       *)
(* leaves memory[0x200 + i] = rom[i] for every i in 0..3583, leaves       *)
(* memory[0..0x1FF] as it was, and changes no register, nor index, pc,    *)
(* stack, sp, the timers, the screen or the keys.                         *)
(***************************************************************************)
C15_LoadRomFrame ==
  Running =>
    \A k \in DOMAIN ApiRoms :
      LET rom == ApiRoms[k]
          t == load_rom(vm, rom)
      IN  /\ \A i \in 0..(MemSize - ProgStart - 1) : t.memory[ProgStart + i] = rom[i]
          /\ \A a \in 0..(ProgStart - 1) : t.memory[a] = vm.memory[a]
          /\ t.registers = vm.registers
          /\ t.index = vm.index
          /\ t.pc = vm.pc
          /\ t.stack = vm.stack
          /\ t.sp = vm.sp
          /\ t.delay_timer = vm.delay_timer
          /\ t.sound_timer = vm.sound_timer
          /\ t.gfx = vm.gfx
          /\ t.keys = vm.keys

\* The full image was loaded into a VM that had run into its subroutine
\* with a key down, a lit screen and set_mem's bytes below 0x200.
C15_Witness ==
  /\ Running
  /\ \A i \in 0..(MemSize - ProgStart - 1) : vm.memory[ProgStart + i] = FullRom[i]
  /\ vm.memory[0] = 1
  /\ vm.memory[ProgStart - 1] = 254
  /\ vm.pc = WordAddr(6)
  /\ vm.sp = 1
  /\ vm.stack[0] = WordAddr(4)
  /\ vm.registers[10] = 7
  /\ vm.index = 5
  /\ vm.keys[15] = 1
  /\ \E g \in 0..(GfxSize - 1) : vm.gfx[g] = 1

(***************************************************************************)
(* C16.  After any sequence of load_rom, set_mem, cycle, key_pressed and  *)
(* key_released calls, init() yields the state Chip8::new() constructs:   *)
(* pc = 0x200, the font in memory[0..79], and every other memory byte,    *)
(* register, index, stack slot, sp, timer, opcode, screen cell and key    *)
(* state zero.                                                             *)
(***************************************************************************)
C16_Reset ==
  Running =>
    LET t == Chip8_init(vm)
    IN  /\ t.pc = Chip8_new.pc
        /\ t.memory = Chip8_new.memory
        /\ t.registers = Chip8_new.registers
        /\ t.index = Chip8_new.index
        /\ t.stack = Chip8_new.stack
        /\ t.sp = Chip8_new.sp
        /\ t.delay_timer = Chip8_new.delay_timer
        /\ t.sound_timer = Chip8_new.sound_timer
        /\ t.opcode = Chip8_new.opcode
        /\ t.gfx = Chip8_new.gfx
        /\ t.keys = Chip8_new.keys

(***************************************************************************)
(* C17.  Every instruction fetch of cycle() reads from an address         *)
(* pc >= 0x200, whatever jump, call, return or V0-relative jump the       *)
(* program has executed: no byte of the font region is decoded.           *)
(***************************************************************************)
C17_FetchAboveFont ==
  AtWord => vm.pc >= ProgStart

(***************************************************************************)
(* C18.  DXYN, with VX and VY the values held in registers X and Y and    *)
(* the sprite of N bytes at memory[index..index+N-1], flips exactly the   *)
(* screen cells (VX + c, VY + r) for which bit 7 - c of sprite byte r is  *)
(* set (c in 0..7, r in 0..N-1) and leaves every other cell as it was.    *)
(***************************************************************************)
C18_DrawPlacement ==
  (AtWord /\ IsDraw(Word)) =>
    \A in \in CycleInputs(vm) :
      LET vx == vm.registers[Nib(Word, 2)]
          vy == vm.registers[Nib(Word, 1)]
          n == Nib(Word, 0)
          t == cycle(vm, in)
          flipped(col, row) ==
            \E c \in 0..7, r \in 0..(n - 1) :
              /\ col = vx + c
              /\ row = vy + r
              /\ BitAnd(vm.memory[vm.index + r], Shl(1, 7 - c)) # 0
      IN  (/\ vx + 7 <= ScreenWidth - 1
           /\ vy + n - 1 <= ScreenHeight - 1
           /\ vm.index + n - 1 <= MemSize - 1
           /\ ~t.panicked)
          => \A col \in 0..(ScreenWidth - 1), row \in 0..(ScreenHeight - 1) :
               LET g == (row * ScreenWidth) + col
               IN  t.gfx[g] = (IF flipped(col, row) THEN 1 - vm.gfx[g] ELSE vm.gfx[g])

(***************************************************************************)
(* C19.  FX15 loads the delay timer, and FX18 the sound timer, with the   *)
(* value held in VX, before the cycle's tick; FX07 copies the delay timer *)
(* into VX.                                                                *)
(***************************************************************************)
C19_TimerWrites ==
  AtWord =>
    \A in \in CycleInputs(vm) :
      LET v == vm.registers[Nib(Word, 2)]
          p == perform_opcode(vm, in)
          t == cycle(vm, in)
      IN  ~t.panicked =>
            /\ IsLdDelay(Word) => (p.delay_timer = v /\ t.delay_timer = Dec(v))
            /\ (IsLdSound(Word) /\ Nib(Word, 1) = 1) =>
                 (p.sound_timer = v /\ t.sound_timer = Dec(v))
            /\ IsGetDelay(Word) => t.registers[Nib(Word, 2)] = vm.delay_timer

(***************************************************************************)
(* C20.  FX29 with v = VX sets index = 5 * (v mod 16): index is one of    *)
(* 0, 5, ..., 75 and the glyph bytes index..index+4 lie in memory[0..79]. *)
(***************************************************************************)
C20_FontAddress ==
  (AtWord /\ IsFont(Word)) =>
    \A in \in CycleInputs(vm) :
      LET v == vm.registers[Nib(Word, 2)]
          t == cycle(vm, in)
      IN  /\ ~t.panicked
          /\ t.index = 5 * (v % 16)
          /\ t.index \in { 5 * d : d \in 0..15 }
          /\ t.index + 4 <= FontLen - 1

(***************************************************************************)
(* C21.  Key tests.  With VX = k in 0..15, EX9E advances pc by 4 iff key  *)
(* k is down and by 2 otherwise, EXA1 by 4 iff key k is up and by 2       *)
(* otherwise, and neither changes a key or a register.  With VX above 15  *)
(* the cycle panics: no key slot outside 0..15 is read and pc does not    *)
(* move.                                                                   *)
(***************************************************************************)
C21_KeyTests ==
  (AtWord /\ (IsSkp(Word) \/ IsSknp(Word))) =>
    \A in \in CycleInputs(vm) :
      LET k == vm.registers[Nib(Word, 2)]
          t == cycle(vm, in)
          skips == IF IsSkp(Word) THEN vm.keys[k] # 0 ELSE vm.keys[k] = 0
      IN  IF k <= 15
          THEN /\ ~t.panicked
               /\ t.pc = vm.pc + (IF skips THEN 4 ELSE 2)
               /\ t.keys = vm.keys
               /\ t.registers = vm.registers
          ELSE /\ t.panicked
               /\ t.acc.keys \subseteq 0..(NumKeys - 1)
               /\ t.pc = vm.pc
               /\ t.keys = vm.keys
               /\ t.registers = vm.registers

\* E59E with V5 = 15 and key 15 down skipped the word after it.
C21_Witness ==
  /\ Running
  /\ vm.opcode = W(14, 5, 9, 14)
  /\ vm.registers[5] = 15
  /\ vm.keys[15] = 1
  /\ vm.pc = WordAddr(3)

(***************************************************************************)
(* C22.  FX55 writes V0..VX to memory[index..index+X] and changes neither *)
(* index nor a register nor any other memory byte.  FX65 run afterwards   *)
(* with the same index and X, whatever the registers were overwritten     *)
(* with in between, leaves V0..VX at the stored values and index and the  *)
(* registers above X as they were.                                         *)
(***************************************************************************)
C22_StoreLoad ==
  (AtWord /\ IsRegDump(Word) /\ vm.index + Nib(Word, 2) <= MemSize - 1) =>
    \A in \in CycleInputs(vm) :
      LET x == Nib(Word, 2)
          stored == cycle(vm, in)
          before == RunToWord(stored, W(15, x, 6, 5), MaxBetween, in)
          loaded == cycle(before, in)
      IN  /\ ~stored.panicked
          /\ \A i \in 0..x : stored.memory[vm.index + i] = vm.registers[i]
          /\ \A a \in (0..(MemSize - 1)) \ (vm.index..(vm.index + x)) :
               stored.memory[a] = vm.memory[a]
          /\ stored.index = vm.index
          /\ stored.registers = vm.registers
          /\ (/\ ~before.panicked
              /\ Fetchable(before)
              /\ NextWord(before) = W(15, x, 6, 5)
              /\ before.index = vm.index)
             => /\ ~loaded.panicked
                /\ \A i \in 0..x : loaded.registers[i] = vm.registers[i]
                /\ \A i \in (x + 1)..(NumRegs - 1) : loaded.registers[i] = before.registers[i]
                /\ loaded.index = vm.index
                /\ loaded.memory = before.memory

\* F155 stored V0 = 255 and V1 = 7 in the last two bytes of memory, all
\* three registers were overwritten with 254, and F165 brought V0 and V1
\* back and left V2.
C22_Witness ==
  /\ Running
  /\ vm.opcode = W(15, 1, 6, 5)
  /\ vm.pc = WordAddr(9)
  /\ vm.index = 4094
  /\ vm.memory[4094] = 255
  /\ vm.memory[4095] = 7
  /\ vm.registers[0] = 255
  /\ vm.registers[1] = 7
  /\ vm.registers[2] = 254

C24_KeyWaitHighest ==
  (AtWord /\ IsWaitKey(Word)) =>
    \A in \in CycleInputs(vm) :
      LET x == Nib(Word, 2)
          t == cycle(vm, in)
      IN  /\ ~t.panicked
          /\ t.keys = vm.keys
          /\ IF KeysDown(vm) = {}
             THEN t.registers = vm.registers /\ t.pc = vm.pc
             ELSE /\ t.registers[x] = Highest(KeysDown(vm))
                  /\ \A i \in (0..(NumRegs - 1)) \ {x} : t.registers[i] = vm.registers[i]
                  /\ t.pc = vm.pc + 2

\* F50A ran with keys 0 and 15 both down: V5 = 15.
C24_Witness ==
  /\ Running
  /\ vm.opcode = W(15, 5, 0, 10)
  /\ vm.pc = WordAddr(1)
  /\ vm.keys[0] = 1
  /\ vm.keys[15] = 1
  /\ vm.registers[5] = 15

====
